---- MODULE Spec2Model ----
(***************************************************************************)
(* BusinessFetcher: the "Get Data" pipeline of src/app.py (resolve the     *)
(* location, build the Overpass query, fetch, normalise and categorise,    *)
(* present) and the batch script src/script.py.                            *)
(*                                                                         *)
(* Conventions.                                                            *)
(*  - A Python str is a sequence of one-character strings; dictionary keys *)
(*    and column names are TLA+ strings.                                   *)
(*  - A Python float is the IEEE 754 double: a finite one is its sign, its  *)
(*    mantissa m < 2^53 (in base 100000) and its exponent q, the value    *)
(*    being sign * m * 2^q; float() rounds a decimal literal of any length *)
(*    to the nearest double, to inf or to 0.0 as Python does; inf and nan  *)
(*    are values of their own.  The product radius_km * 1000 is kept as a  *)
(*    product: its double rounding is not computed.                        *)
(*  - None is the empty sequence <<>>, a value x that may be None is <<x>>.*)
(*  - An exception is the name of its class; "None" when nothing was       *)
(*    raised.  The classes of the requests library are modelled by their   *)
(*    base classes.                                                        *)
(***************************************************************************)
EXTENDS Integers, Sequences, FiniteSets, TLC

VARIABLES
    pc,                 \* position of the script
    location_query,     \* st.text_input value (app.py:151)
    radius_input,       \* st.number_input value (app.py:154)
    location,           \* (lat, lon) returned by geocode_location, or None
    overpass_query,     \* the query built by get_osm_data, or None
    json_data,          \* the value returned by get_osm_data, or None
    df,                 \* the script's variable df, or None
    script_result,      \* what script.py:78-98 made of the same body, or None
    geo_response,       \* what requests.get(NOMINATIM_URL, ...) came back with
    osm_response,       \* what requests.get(OVERPASS_URL, ...) came back with
    exc,                \* class of the exception in flight
    outcome,            \* what the run showed last: st.warning/success/error
    nominatim_calls,    \* requests.get(NOMINATIM_URL, ...) issued in this run
    overpass_calls,     \* requests.get(OVERPASS_URL, ...) issued in this run
    log,                \* history: pipeline steps started in this run
    ok,                 \* history: pipeline steps that returned normally
    cause,              \* history: why the run failed
    prev                \* history: cause and outcome of the previous run

vars == <<pc, location_query, radius_input, location, overpass_query, json_data,
          df, script_result, geo_response, osm_response, exc, outcome,
          nominatim_calls, overpass_calls, log, ok, cause, prev>>

(***************************************************************************)
(* Bounds                                                                  *)
(***************************************************************************)
MaxQueryLen == 5
MaxElements == 2

(***************************************************************************)
(* Python str                                                              *)
(***************************************************************************)
\* the printable ASCII characters of code points 32 to 95, and 97 to 126
AsciiLow ==
    << " ", "!", "\"", "#", "$", "%", "&", "'", "(", ")", "*", "+", ",", "-", ".", "/",
       "0", "1", "2", "3", "4", "5", "6", "7", "8", "9", ":", ";", "<", "=", ">", "?",
       "@", "A", "B", "C", "D", "E", "F", "G", "H", "I", "J", "K", "L", "M", "N", "O",
       "P", "Q", "R", "S", "T", "U", "V", "W", "X", "Y", "Z", "[", "\\", "]", "^", "_" >>

AsciiHigh ==
    << "a", "b", "c", "d", "e", "f", "g", "h", "i", "j", "k", "l", "m", "n", "o",
       "p", "q", "r", "s", "t", "u", "v", "w", "x", "y", "z", "{", "|", "}", "~" >>

\* ord(c)
CodePoint(c) ==
    IF \E i \in 1..Len(AsciiLow) : AsciiLow[i] = c
    THEN 31 + (CHOOSE i \in 1..Len(AsciiLow) : AsciiLow[i] = c)
    ELSE IF \E i \in 1..Len(AsciiHigh) : AsciiHigh[i] = c
    THEN 96 + (CHOOSE i \in 1..Len(AsciiHigh) : AsciiHigh[i] = c)
    ELSE CASE c = "\t" -> 9 [] c = "\n" -> 10 [] c = "" -> 11 [] c = "\f" -> 12
           [] c = "\r" -> 13 [] c = "" -> 28 [] c = "" -> 29 [] c = "" -> 30
           [] c = "" -> 31 [] c = "" -> 133 [] c = " " -> 160
           [] c = " " -> 5760

\* a < b for two str: by code point, a proper prefix first
RECURSIVE StrLess(_, _)
StrLess(a, b) ==
    IF b = <<>> THEN FALSE
    ELSE IF a = <<>> THEN TRUE
    ELSE IF Head(a) # Head(b) THEN CodePoint(Head(a)) < CodePoint(Head(b))
    ELSE StrLess(Tail(a), Tail(b))

\* str.isspace for one character: blank, \t, \n, \v, \f, \r, the separators of
\* code points 28 to 31, and next line U+0085, no-break space U+00A0 and ogham
\* space mark U+1680.  (The other spaces of Unicode, U+2000 to U+200A, U+2028,
\* U+2029, U+202F, U+205F and U+3000, cannot be written in a string here.)
Whitespace ==
    {" ", "\t", "\n", "", "\f", "\r", "", "", "", "", "", " ", " "}

\* the whitespace float() drops around a literal: blank, \t, \n, \v, \f, \r and
\* the spaces beyond ASCII, U+0085, U+00A0 and U+1680 (float() turns these into
\* blanks first); not the separators of code points 28 to 31
FloatWhitespace == {" ", "\t", "\n", "", "\f", "\r", "", " ", " "}

\* str.split(sep) for a one-character separator: the texts between the
\* separators, one more than there are separators
Split(s, sep) ==
    LET at     == {i \in 1..Len(s) : s[i] = sep}
        Nth(k) == IF k = 0 THEN 0
                  ELSE IF k > Cardinality(at) THEN Len(s) + 1
                  ELSE CHOOSE i \in at : Cardinality({j \in at : j < i}) = k - 1
    IN  [k \in 1..(Cardinality(at) + 1) |-> SubSeq(s, Nth(k - 1) + 1, Nth(k) - 1)]

\* str.lstrip(), str.rstrip(), str.strip()
RECURSIVE LStrip(_)
LStrip(s) == IF s # <<>> /\ Head(s) \in Whitespace THEN LStrip(Tail(s)) ELSE s

RECURSIVE RStrip(_)
RStrip(s) ==
    IF s # <<>> /\ s[Len(s)] \in Whitespace
    THEN RStrip(SubSeq(s, 1, Len(s) - 1)) ELSE s

Strip(s) == RStrip(LStrip(s))

\* the literal float() reads: the text without the whitespace around it
RECURSIVE FloatLStrip(_)
FloatLStrip(s) ==
    IF s # <<>> /\ Head(s) \in FloatWhitespace THEN FloatLStrip(Tail(s)) ELSE s

RECURSIVE FloatRStrip(_)
FloatRStrip(s) ==
    IF s # <<>> /\ s[Len(s)] \in FloatWhitespace
    THEN FloatRStrip(SubSeq(s, 1, Len(s) - 1)) ELSE s

FloatStrip(s) == FloatRStrip(FloatLStrip(s))

\* str.lower() on the letters of inf, infinity and nan
LowerChar(c) ==
    CASE c = "I" -> "i" [] c = "N" -> "n" [] c = "F" -> "f" [] c = "T" -> "t"
      [] c = "Y" -> "y" [] c = "A" -> "a" [] OTHER -> c

Lower(s) == [i \in 1..Len(s) |-> LowerChar(s[i])]

(***************************************************************************)
(* Python float: an IEEE 754 binary64 value.  A finite one is                *)
(* sign * m * 2^q, m < 2^53 written in base 100000 (the empty sequence for  *)
(* 0), with 2^52 <= m when q > -1074, so that equal values are equal        *)
(* records.                                                                 *)
(***************************************************************************)
Min(a, b) == IF a < b THEN a ELSE b

Max(a, b) == IF a > b THEN a ELSE b

Finite(sign, m, q) == [kind |-> "finite", sign |-> sign, m |-> m, q |-> q]

Inf(sign) == [kind |-> "inf", sign |-> sign, m |-> <<>>, q |-> 0]

NanFloat == [kind |-> "nan", sign |-> 1, m |-> <<>>, q |-> 0]

\* A natural number is the sequence of its limbs (base 100000), the most
\* significant first and not 0.  A decimal is held exactly while it is scaled:
\* the limbs of its integer part and those of its fraction.
Limb == 100000

\* the number of zeros d starts with, and ends with
LeadingZeros(d) ==
    IF \A i \in 1..Len(d) : d[i] = 0 THEN Len(d)
    ELSE (CHOOSE i \in 1..Len(d) : d[i] # 0 /\ \A j \in 1..(i - 1) : d[j] = 0) - 1

TrailingZeros(d) ==
    IF \A i \in 1..Len(d) : d[i] = 0 THEN Len(d)
    ELSE Len(d) - (CHOOSE i \in 1..Len(d) : d[i] # 0 /\ \A j \in (i + 1)..Len(d) : d[j] = 0)

StripLeadingZeros(d) ==
    IF Len(d) = 0 \/ d[1] # 0 THEN d ELSE SubSeq(d, LeadingZeros(d) + 1, Len(d))

StripTrailingZeros(d) ==
    IF Len(d) = 0 \/ d[Len(d)] # 0 THEN d ELSE SubSeq(d, 1, Len(d) - TrailingZeros(d))

Dec(int, frac) == [int |-> StripLeadingZeros(int), frac |-> StripTrailingZeros(frac)]

\* the limb made of the five digits s[lo] .. s[lo + 4], zeros beyond the ends of s
LimbAt(s, lo) ==
    LET D(i) == IF 1 <= i /\ i <= Len(s) THEN s[i] ELSE 0
    IN  10000 * D(lo) + 1000 * D(lo + 1) + 100 * D(lo + 2) + 10 * D(lo + 3) + D(lo + 4)

\* the decimal 0.s * 10^x, s a sequence of digits
ToDec(s, x) ==
    LET ni == IF x > 0 THEN (x + 4) \div 5 ELSE 0
        nf == IF Len(s) > x THEN (Len(s) - x + 4) \div 5 ELSE 0
    IN  Dec([j \in 1..ni |-> LimbAt(s, x - 5 * (ni - j) - 4)],
            [j \in 1..nf |-> LimbAt(s, x + 5 * (j - 1) + 1)])

\* the number of decimal digits of a limb, 0 for 0
LimbDigits(n) ==
    IF n >= 10000 THEN 5 ELSE IF n >= 1000 THEN 4 ELSE IF n >= 100 THEN 3
    ELSE IF n >= 10 THEN 2 ELSE IF n >= 1 THEN 1 ELSE 0

\* the number of decimal digits of a natural number
NatDigits(a) == IF a = <<>> THEN 0 ELSE 5 * (Len(a) - 1) + LimbDigits(a[1])

\* v / 2^k for k <= 5, exactly: 2^k divides the base, so a limb of the result
\* depends on two neighbouring limbs of v only
HalvePass(v, k) ==
    LET d == v.int \o v.frac
        h == [i \in 1..(Len(d) + 1) |->
                 ((IF i <= Len(d) THEN d[i] ELSE 0)
                    + Limb * (IF i > 1 THEN d[i - 1] % (2 ^ k) ELSE 0)) \div (2 ^ k)]
    IN  Dec(SubSeq(h, 1, Len(v.int)), SubSeq(h, Len(v.int) + 1, Len(h)))

\* k is done in passes of at most n: the size of the first half of the passes
FirstPasses(k, n) == n * ((k \div n + 1) \div 2)

\* v / 2^k for any k.  The first half of the passes is bound in a set, so that
\* it is computed once and before the second half.
RECURSIVE HalveTimes(_, _)
HalveTimes(v, k) ==
    IF k <= 5 THEN HalvePass(v, k)
    ELSE CHOOSE r \in {HalveTimes(w, k - FirstPasses(k, 5)) :
                           w \in {HalveTimes(v, FirstPasses(k, 5))}} : TRUE

\* d * 2^k for k <= 14, d a sequence of limbs: raw[j] is what limb j receives
\* from d[j] and from d[j - 1], below 2 * Limb; C(j) is the carry into limb j.
\* The result has one limb more than d, unless that limb is 0.
DoublePass(d, k) ==
    LET raw  == SubSeq([j \in 1..(Len(d) + 1) |->
                           (IF j > 1 THEN (d[j - 1] * (2 ^ k)) % Limb ELSE 0)
                             + (IF j <= Len(d) THEN (d[j] * (2 ^ k)) \div Limb ELSE 0)],
                       1, Len(d) + 1)
        C(j) == \E l \in (j + 1)..Len(raw) :
                    raw[l] >= Limb /\ \A t \in (j + 1)..(l - 1) : raw[t] = Limb - 1
    IN  SubSeq([j \in 1..Len(raw) |-> (raw[j] + (IF C(j) THEN 1 ELSE 0)) % Limb],
               IF raw[1] = 0 /\ ~C(1) THEN 2 ELSE 1, Len(raw))

\* d * 2^k for any k
RECURSIVE DoublePasses(_, _)
DoublePasses(d, k) ==
    IF k <= 14 THEN DoublePass(d, k)
    ELSE CHOOSE r \in {DoublePasses(w, k - FirstPasses(k, 14)) :
                           w \in {DoublePasses(d, FirstPasses(k, 14))}} : TRUE

\* v * 2^k, exactly: the fraction keeps its number of limbs
DoubleTimes(v, k) ==
    LET d == DoublePasses(v.int \o v.frac, k)
    IN  [int  |-> SubSeq(d, 1, Len(d) - Len(v.frac)),
         frac |-> StripTrailingZeros(SubSeq(d, Len(d) - Len(v.frac) + 1, Len(d)))]

\* a < b for two natural numbers
NatLess(a, b) ==
    \/ Len(a) < Len(b)
    \/ /\ Len(a) = Len(b)
       /\ \E i \in 1..Len(a) : a[i] < b[i] /\ \A j \in 1..(i - 1) : a[j] = b[j]

\* 2^52 = 4503599627370496 and 2^53 = 9007199254740992
TwoTo52 == <<4, 50359, 96273, 70496>>

TwoTo53 == <<9, 719, 92547, 40992>>

\* a + 1
RECURSIVE Increment(_)
Increment(a) ==
    IF a = <<>> THEN <<1>>
    ELSE IF a[Len(a)] = Limb - 1 THEN Append(Increment(SubSeq(a, 1, Len(a) - 1)), 0)
    ELSE [a EXCEPT ![Len(a)] = @ + 1]

\* v * 2^q rounded to the nearest multiple of 2^q, a tie to the even one; inf
\* from 2^1024 on (q = 971 is the exponent of the largest double)
Round(sign, v, q) ==
    LET odd == v.int # <<>> /\ v.int[Len(v.int)] % 2 = 1
        up  == /\ v.frac # <<>>
               /\ \/ v.frac[1] > Limb \div 2
                  \/ v.frac[1] = Limb \div 2 /\ (Len(v.frac) > 1 \/ odd)
        m   == IF up THEN Increment(v.int) ELSE v.int
    IN  IF m = <<>> THEN Finite(sign, <<>>, 0)
        ELSE IF m = TwoTo53
        THEN (IF q + 1 > 971 THEN Inf(sign) ELSE Finite(sign, TwoTo52, q + 1))
        ELSE IF q > 971 THEN Inf(sign)
        ELSE Finite(sign, m, q)

\* how many times v, of 17 digits or more, can be halved and stay above 2^52;
\* how many times v, below 2^52, can be doubled and stay below 2^53, q not going
\* below -1074 (a decimal digit is between 3.3 and 3.33 binary digits)
HalveBy(v) == ((NatDigits(v.int) - 17) * 33) \div 10 + 1

DoubleBy(v, q) ==
    Min(q + 1074,
        IF v.int = <<>>
        THEN 52 + ((5 * LeadingZeros(v.frac) + 5
                      - LimbDigits(v.frac[LeadingZeros(v.frac) + 1])) * 33) \div 10
        ELSE Max(1, 52 - (NatDigits(v.int) * 333) \div 100))

\* the double nearest to v * 2^q, v a decimal above zero: v is halved or doubled,
\* q following, until 2^52 <= v < 2^53 or q = -1074, and then rounded
RECURSIVE Scale(_, _, _)
Scale(sign, v, q) ==
    IF NatDigits(v.int) >= 17
    THEN CHOOSE r \in {Scale(sign, w, q + HalveBy(v)) :
                           w \in {HalveTimes(v, HalveBy(v))}} : TRUE
    ELSE IF ~NatLess(v.int, TwoTo53)
    THEN CHOOSE r \in {Scale(sign, w, q + 1) : w \in {HalvePass(v, 1)}} : TRUE
    ELSE IF NatLess(v.int, TwoTo52) /\ q > -1074
    THEN CHOOSE r \in {Scale(sign, w, q - DoubleBy(v, q)) :
                           w \in {DoubleTimes(v, DoubleBy(v, q))}} : TRUE
    ELSE Round(sign, v, q)

\* the double nearest to sign * digits * 10^e: 0.0 below 10^-324, which is below
\* half the smallest double 2^-1074, and inf from 10^309 on
FromDecimal(sign, digits, e) ==
    LET s == StripLeadingZeros(digits)
        x == Len(s) + e
    IN  IF s = <<>> \/ x <= -324 THEN Finite(sign, <<>>, 0)
        ELSE IF x >= 310 THEN Inf(sign)
        ELSE Scale(sign, ToDec(s, x), 0)

\* the float of the literal <n>e<e>, n an int of at most nine digits
Float(n, e) ==
    FromDecimal(IF n < 0 THEN -1 ELSE 1,
                [i \in 1..9 |-> ((IF n < 0 THEN -n ELSE n) \div (10 ^ (9 - i))) % 10], e)

\* the decimal digits of other scripts that float() reads as 0 .. 9 (those a
\* string of this module can hold), a script a row
DigitBlocks ==
    << <<"۰", "۱", "۲", "۳", "۴", "۵", "۶", "۷", "۸", "۹">>,  \* U+06F0..: Extended Arabic-Indic
       <<"߀", "߁", "߂", "߃", "߄", "߅", "߆", "߇", "߈", "߉">>,  \* U+07C0..: Nko
       <<"০", "১", "২", "৩", "৪", "৫", "৬", "৭", "৮", "৯">>,  \* U+09E6..: Bengali
       <<"૦", "૧", "૨", "૩", "૪", "૫", "૬", "૭", "૮", "૯">>,  \* U+0AE6..: Gujarati
       <<"௦", "௧", "௨", "௩", "௪", "௫", "௬", "௭", "௮", "௯">>,  \* U+0BE6..: Tamil
       <<"೦", "೧", "೨", "೩", "೪", "೫", "೬", "೭", "೮", "೯">>,  \* U+0CE6..: Kannada
       <<"෦", "෧", "෨", "෩", "෪", "෫", "෬", "෭", "෮", "෯">>,  \* U+0DE6..: Sinhala Lith
       <<"໐", "໑", "໒", "໓", "໔", "໕", "໖", "໗", "໘", "໙">>,  \* U+0ED0..: Lao
       <<"႐", "႑", "႒", "႓", "႔", "႕", "႖", "႗", "႘", "႙">>,  \* U+1090..: Myanmar Shan
       <<"០", "១", "២", "៣", "៤", "៥", "៦", "៧", "៨", "៩">>,  \* U+17E0..: Khmer
       <<"᧐", "᧑", "᧒", "᧓", "᧔", "᧕", "᧖", "᧗", "᧘", "᧙">>,  \* U+19D0..: New Tai Lue
       <<"᪀", "᪁", "᪂", "᪃", "᪄", "᪅", "᪆", "᪇", "᪈", "᪉">>,  \* U+1A80..: Tai Tham Hora
       <<"᪐", "᪑", "᪒", "᪓", "᪔", "᪕", "᪖", "᪗", "᪘", "᪙">>,  \* U+1A90..: Tai Tham Tham
       <<"᮰", "᮱", "᮲", "᮳", "᮴", "᮵", "᮶", "᮷", "᮸", "᮹">>,  \* U+1BB0..: Sundanese
       <<"꣐", "꣑", "꣒", "꣓", "꣔", "꣕", "꣖", "꣗", "꣘", "꣙">>,  \* U+A8D0..: Saurashtra
       <<"꧐", "꧑", "꧒", "꧓", "꧔", "꧕", "꧖", "꧗", "꧘", "꧙">>,  \* U+A9D0..: Javanese
       <<"꧰", "꧱", "꧲", "꧳", "꧴", "꧵", "꧶", "꧷", "꧸", "꧹">>,  \* U+A9F0..: Myanmar Tai Laing
       <<"꯰", "꯱", "꯲", "꯳", "꯴", "꯵", "꯶", "꯷", "꯸", "꯹">> >>  \* U+ABF0..: Meetei Mayek

UnicodeDigits == {DigitBlocks[b][i] : b \in 1..Len(DigitBlocks), i \in 1..10}

AsciiDigits == <<"0", "1", "2", "3", "4", "5", "6", "7", "8", "9">>

\* float() first turns every decimal digit into its ASCII digit
AsciiDigit(c) ==
    IF c \in UnicodeDigits
    THEN AsciiDigits[CHOOSE i \in 1..10 :
                         \E b \in 1..Len(DigitBlocks) : DigitBlocks[b][i] = c]
    ELSE c

TransformDecimal(s) == [i \in 1..Len(s) |-> AsciiDigit(s[i])]

DigitValue(c) ==
    CASE c = "0" -> 0 [] c = "1" -> 1 [] c = "2" -> 2 [] c = "3" -> 3
      [] c = "4" -> 4 [] c = "5" -> 5 [] c = "6" -> 6 [] c = "7" -> 7
      [] c = "8" -> 8 [] c = "9" -> 9

IsDigit(c) == c \in {"0", "1", "2", "3", "4", "5", "6", "7", "8", "9"}

\* digits, with single underscores between digits
IsDigitPart(s) ==
    /\ s # <<>>
    /\ IsDigit(s[1])
    /\ IsDigit(s[Len(s)])
    /\ \A i \in 1..Len(s) : IsDigit(s[i]) \/ s[i] = "_"
    /\ \A i \in 1..(Len(s) - 1) : ~(s[i] = "_" /\ s[i + 1] = "_")

\* the digits of s, underscores skipped
Digits(s) ==
    LET t == SelectSeq(s, IsDigit)
    IN  [i \in 1..Len(t) |-> DigitValue(t[i])]

\* the digits of an exponent read as a natural number; from 100000 on the value
\* no longer matters (the float is inf or 0.0) and stays there
ExponentValue(s) ==
    LET d == StripLeadingZeros(Digits(s))
    IN  IF Len(d) > 5 THEN 100000 ELSE LimbAt(d, Len(d) - 4)

\* the first position of s holding a character of cs, Len(s) + 1 when none
FirstOf(s, cs) ==
    IF \E i \in 1..Len(s) : s[i] \in cs
    THEN CHOOSE i \in 1..Len(s) : s[i] \in cs /\ \A j \in 1..(i - 1) : s[j] \notin cs
    ELSE Len(s) + 1

\* the float of an ASCII literal s, [ok |-> FALSE] when it is none: an optional
\* sign and inf, infinity or nan in any case, or a decimal: digits with at most
\* one point and at least one digit, then an optional exponent.  The value is
\* the double nearest to the decimal, however many digits it has.
FloatFromString(s) ==
    LET signed   == s # <<>> /\ Head(s) \in {"+", "-"}
        sign     == IF s # <<>> /\ Head(s) = "-" THEN -1 ELSE 1
        body     == IF signed THEN Tail(s) ELSE s
        epos     == FirstOf(body, {"e", "E"})
        mantissa == SubSeq(body, 1, epos - 1)
        hasexp   == epos <= Len(body)
        exptext  == SubSeq(body, epos + 1, Len(body))
        expneg   == exptext # <<>> /\ Head(exptext) = "-"
        expbody  == IF exptext # <<>> /\ Head(exptext) \in {"+", "-"}
                    THEN Tail(exptext) ELSE exptext
        point    == FirstOf(mantissa, {"."})
        whole    == SubSeq(mantissa, 1, point - 1)
        frac     == SubSeq(mantissa, point + 1, Len(mantissa))
        valid    == /\ whole = <<>> \/ IsDigitPart(whole)
                    /\ frac = <<>> \/ IsDigitPart(frac)
                    /\ whole # <<>> \/ frac # <<>>
                    /\ hasexp => IsDigitPart(expbody)
        exp      == IF hasexp
                    THEN (IF expneg THEN -ExponentValue(expbody)
                          ELSE ExponentValue(expbody))
                    ELSE 0
    IN  IF Lower(body) \in {<<"i", "n", "f">>, <<"i", "n", "f", "i", "n", "i", "t", "y">>}
        THEN [ok |-> TRUE, val |-> Inf(sign)]
        ELSE IF Lower(body) = <<"n", "a", "n">>
        THEN [ok |-> TRUE, val |-> NanFloat]
        ELSE IF ~valid
        THEN [ok |-> FALSE, val |-> NanFloat]
        ELSE [ok |-> TRUE,
              val |-> FromDecimal(sign, Digits(whole) \o Digits(frac),
                                  exp - Len(Digits(frac)))]

\* float(str): [ok |-> FALSE] is ValueError.  Whitespace around is dropped and
\* decimal digits are made ASCII before the literal is read.
PyFloat(str) == FloatFromString(TransformDecimal(FloatStrip(str)))

(***************************************************************************)
(* Exceptions: the classes the code raises or lets through, with their     *)
(* base classes (isinstance).                                              *)
(***************************************************************************)
Bases(cls) ==
    CASE cls = "ValueError"              -> {"ValueError", "Exception"}
      [] cls = "JSONDecodeError"         -> {"JSONDecodeError", "RequestException",
                                             "ValueError", "OSError", "Exception"}
      [] cls = "ConnectionError"         -> {"ConnectionError", "OSError", "Exception"}
      [] cls = "HTTPError"               -> {"HTTPError", "RequestException",
                                             "OSError", "Exception"}
      [] cls = "RequestsConnectionError" -> {"RequestsConnectionError",
                                             "RequestException", "OSError", "Exception"}
      [] cls = "AttributeError"          -> {"AttributeError", "Exception"}
      [] cls = "KeyError"                -> {"KeyError", "LookupError", "Exception"}
      [] cls = "IndexError"              -> {"IndexError", "LookupError", "Exception"}
      [] cls = "ModuleNotFoundError"     -> {"ModuleNotFoundError", "ImportError",
                                             "Exception"}
      [] OTHER                           -> {}

IsInstance(cls, base) == base \in Bases(cls)

(***************************************************************************)
(* HTTP responses as the requests library hands them over.  A body is what *)
(* response.json() makes of it: no JSON at all, a JSON array with its      *)
(* items, or a JSON object with its keys (and its "elements", if it has    *)
(* that key).                                                              *)
(***************************************************************************)
Statuses == {200, 400, 404, 499, 500, 503}

\* Response.raise_for_status(): HTTPError for 400 <= status < 600
RaiseForStatus(status) == IF 400 <= status /\ status < 600 THEN "HTTPError" ELSE "None"

InvalidBody == [kind |-> "invalid", items |-> <<>>, keys |-> {}, elements |-> <<>>]

ArrayBody(items) == [kind |-> "array", items |-> items, keys |-> {}, elements |-> <<>>]

ObjectBody(keys, elements) ==
    [kind |-> "object", items |-> <<>>, keys |-> keys, elements |-> elements]

\* bool(data)
Truthy(data) ==
    \/ data.kind = "array" /\ data.items # <<>>
    \/ data.kind = "object" /\ data.keys # {}

TransportFailure == [transport_ok |-> FALSE, status |-> 0, body |-> InvalidBody]

HttpResponse(status, body) == [transport_ok |-> TRUE, status |-> status, body |-> body]

(***************************************************************************)
(* geocode_location (app.py:27-49)                                         *)
(***************************************************************************)
\* mutant of ParseCoordinates: len(parts) >= 2 for len(parts) == 2
ParseCoordinatesAtLeastTwo(query) ==
    LET parts == Split(query, ",")
    IN  IF Len(parts) >= 2
        THEN LET flat == PyFloat(Strip(parts[1]))
                 flon == PyFloat(Strip(parts[2]))
             IN  IF flat.ok /\ flon.ok
                 THEN [ok |-> TRUE, exc |-> "None", val |-> <<flat.val, flon.val>>]
                 ELSE [ok |-> FALSE, exc |-> "None", val |-> <<>>]
        ELSE [ok |-> FALSE, exc |-> "None", val |-> <<>>]

\* lines 33-38: the try block; [ok |-> FALSE] when it falls through to geocoding
ParseCoordinates(query) ==
    LET parts == Split(query, ",")
    IN  IF Len(parts) = 2
        THEN LET flat == PyFloat(Strip(parts[1]))
                 flon == PyFloat(Strip(parts[2]))
             IN  IF flat.ok /\ flon.ok
                 THEN [ok |-> TRUE, exc |-> "None", val |-> <<flat.val, flon.val>>]
                 ELSE [ok |-> FALSE, exc |-> "None", val |-> <<>>]  \* except ValueError: pass
        ELSE [ok |-> FALSE, exc |-> "None", val |-> <<>>]

\* mutant of GeocodeResult: without the test "if not data" of line 46
GeocodeResultNoEmptyCheck(resp) ==
    IF ~resp.transport_ok
    THEN [exc |-> "RequestsConnectionError", val |-> <<>>]
    ELSE IF RaiseForStatus(resp.status) # "None"
    THEN [exc |-> RaiseForStatus(resp.status), val |-> <<>>]
    ELSE IF resp.body.kind = "invalid"
    THEN [exc |-> "JSONDecodeError", val |-> <<>>]
    ELSE IF resp.body.kind = "object"
    THEN [exc |-> "KeyError", val |-> <<>>]
    ELSE IF resp.body.items = <<>>
    THEN [exc |-> "IndexError", val |-> <<>>]
    ELSE LET first == resp.body.items[1]
         IN  IF "lat" \notin DOMAIN first
             THEN [exc |-> "KeyError", val |-> <<>>]
             ELSE LET flat == PyFloat(first.lat)
                  IN  IF ~flat.ok
                      THEN [exc |-> "ValueError", val |-> <<>>]
                      ELSE IF "lon" \notin DOMAIN first
                      THEN [exc |-> "KeyError", val |-> <<>>]
                      ELSE LET flon == PyFloat(first.lon)
                           IN  IF ~flon.ok
                               THEN [exc |-> "ValueError", val |-> <<>>]
                               ELSE [exc |-> "None", val |-> <<flat.val, flon.val>>]

\* lines 42-49: what geocode_location does with the Nominatim response
GeocodeResult(resp) ==
    IF ~resp.transport_ok
    THEN [exc |-> "RequestsConnectionError", val |-> <<>>]
    ELSE IF RaiseForStatus(resp.status) # "None"
    THEN [exc |-> RaiseForStatus(resp.status), val |-> <<>>]
    ELSE IF resp.body.kind = "invalid"
    THEN [exc |-> "JSONDecodeError", val |-> <<>>]
    ELSE IF ~Truthy(resp.body)
    THEN [exc |-> "ValueError", val |-> <<>>]              \* line 47
    ELSE IF resp.body.kind = "object"
    THEN [exc |-> "KeyError", val |-> <<>>]                \* data[0] of a dict
    ELSE LET first == resp.body.items[1]
         IN  IF "lat" \notin DOMAIN first
             THEN [exc |-> "KeyError", val |-> <<>>]
             ELSE LET flat == PyFloat(first.lat)
                  IN  IF ~flat.ok
                      THEN [exc |-> "ValueError", val |-> <<>>]
                      ELSE IF "lon" \notin DOMAIN first
                      THEN [exc |-> "KeyError", val |-> <<>>]
                      ELSE LET flon == PyFloat(first.lon)
                           IN  IF ~flon.ok
                               THEN [exc |-> "ValueError", val |-> <<>>]
                               ELSE [exc |-> "None", val |-> <<flat.val, flon.val>>]

\* JSON bodies the geocoding service may answer with
Candidate(lat, lon) == [lat |-> lat, lon |-> lon]

NominatimResponses ==
    {TransportFailure}
    \cup {HttpResponse(s, InvalidBody) : s \in Statuses}
    \cup {HttpResponse(200, ArrayBody(<<>>)),
          HttpResponse(200, ObjectBody({"error"}, <<>>)),
          HttpResponse(200, ArrayBody(<<[osm_id |-> <<"9">>]>>)),
          HttpResponse(200, ArrayBody(<<Candidate(<<"9", ".", "9">>, <<"-", "9", "9">>)>>))}

(***************************************************************************)
(* get_osm_data (app.py:52-106)                                            *)
(***************************************************************************)
\* radius_km * 1000, a float product
Times1000(x) == [kind |-> "product", of |-> x, by |-> 1000]

Around(radius_meters, lat, lon) == [radius |-> radius_meters, lat |-> lat, lon |-> lon]

Clause(kind, axis, filter, around) ==
    [kind |-> kind, axis |-> axis, filter |-> filter, around |-> around]

\* lines 60-94: the f-string, one clause per line of the union
OverpassQuery(radius_meters, lat, lon) ==
    << Clause("node",     "amenity", "whitelist", Around(radius_meters, lat, lon)),
       Clause("way",      "amenity", "whitelist", Around(radius_meters, lat, lon)),
       Clause("relation", "amenity", "whitelist", Around(radius_meters, lat, lon)),
       Clause("node",     "shop",    "blacklist", Around(radius_meters, lat, lon)),
       Clause("way",      "shop",    "blacklist", Around(radius_meters, lat, lon)),
       Clause("relation", "shop",    "blacklist", Around(radius_meters, lat, lon)),
       Clause("node",     "office",  "any",       Around(radius_meters, lat, lon)),
       Clause("way",      "office",  "any",       Around(radius_meters, lat, lon)),
       Clause("relation", "office",  "any",       Around(radius_meters, lat, lon)),
       Clause("node",     "tourism", "whitelist", Around(radius_meters, lat, lon)),
       Clause("way",      "tourism", "whitelist", Around(radius_meters, lat, lon)),
       Clause("relation", "tourism", "whitelist", Around(radius_meters, lat, lon)),
       Clause("node",     "craft",   "any",       Around(radius_meters, lat, lon)),
       Clause("way",      "craft",   "any",       Around(radius_meters, lat, lon)),
       Clause("relation", "craft",   "any",       Around(radius_meters, lat, lon)),
       Clause("node",     "leisure", "whitelist", Around(radius_meters, lat, lon)),
       Clause("way",      "leisure", "whitelist", Around(radius_meters, lat, lon)),
       Clause("relation", "leisure", "whitelist", Around(radius_meters, lat, lon)) >>

\* script.py:5-6
LAT == Float(523791283, -7)

LON == Float(4900272, -6)

RADIUS_KM == 1

\* script.py:34-69: the same union, for the configured point; the radius is an int
script_overpass_query == OverpassQuery(RADIUS_KM * 1000, LAT, LON)

\* mutant of BuildQuery: the radius left in kilometres
BuildQueryInKm(lat, lon, radius_km) == OverpassQuery(radius_km, lat, lon)

\* lines 57-94: no check of radius_km comes before the query is built
BuildQuery(lat, lon, radius_km) == OverpassQuery(Times1000(radius_km), lat, lon)

\* mutant of FetchResult: raise_for_status alone, as in script.py:76
FetchResultRaiseForStatusOnly(resp) ==
    IF ~resp.transport_ok
    THEN [exc |-> "RequestsConnectionError", val |-> <<>>]
    ELSE IF RaiseForStatus(resp.status) # "None"
    THEN [exc |-> RaiseForStatus(resp.status), val |-> <<>>]
    ELSE IF resp.body.kind = "invalid"
    THEN [exc |-> "JSONDecodeError", val |-> <<>>]
    ELSE [exc |-> "None", val |-> <<resp.body>>]

\* lines 99-106: what get_osm_data does with the Overpass response
FetchResult(resp) ==
    IF ~resp.transport_ok
    THEN [exc |-> "RequestsConnectionError", val |-> <<>>]
    ELSE IF resp.status >= 500
    THEN [exc |-> "ConnectionError", val |-> <<>>]
    ELSE IF RaiseForStatus(resp.status) # "None"
    THEN [exc |-> RaiseForStatus(resp.status), val |-> <<>>]
    ELSE IF resp.body.kind = "invalid"
    THEN [exc |-> "JSONDecodeError", val |-> <<>>]
    ELSE [exc |-> "None", val |-> <<resp.body>>]

(***************************************************************************)
(* process_data (app.py:109-138) and the script's copy (script.py:78-98).  *)
(* A cell of a frame is a string (a sequence of characters) or NaN.        *)
(***************************************************************************)
Axes == {"shop", "amenity", "office", "tourism", "craft", "leisure"}

NaN == <<"NaN">>

\* pd.notna
NotNa(v) == v # NaN

\* pd.json_normalize names the column of tags[key] "tags.<key>"
ColumnOf(key) ==
    CASE key = "shop" -> "tags.shop"       [] key = "amenity" -> "tags.amenity"
      [] key = "office" -> "tags.office"   [] key = "tourism" -> "tags.tourism"
      [] key = "craft" -> "tags.craft"     [] key = "leisure" -> "tags.leisure"
      [] key = "name" -> "tags.name"

\* pd.json_normalize(elements): the column "type", a column for every tag some
\* element carries, NaN where an element does not carry it; a RangeIndex
JsonNormalize(elements) ==
    LET keys    == UNION {DOMAIN elements[i].tags : i \in 1..Len(elements)}
        columns == {"type"} \cup {ColumnOf(k) : k \in keys}
        Row(e)  == [c \in columns |->
                      IF c = "type" THEN e.type
                      ELSE LET k == CHOOSE k \in keys : ColumnOf(k) = c
                           IN  IF k \in DOMAIN e.tags THEN e.tags[k] ELSE NaN]
    IN  [columns |-> columns,
         index   |-> [i \in 1..Len(elements) |-> i - 1],
         rows    |-> [i \in 1..Len(elements) |-> Row(elements[i])]]

\* f"<Axis>: {value}"
Label(axis, value) == axis \o <<":", " ">> \o value

Other == <<"O", "t", "h", "e", "r">>

\* mutant of categorize_business: amenity tested before shop
categorize_business_amenity_first(row) ==
    IF "tags.amenity" \in DOMAIN row /\ NotNa(row["tags.amenity"])
    THEN Label(<<"A", "m", "e", "n", "i", "t", "y">>, row["tags.amenity"])
    ELSE IF "tags.shop" \in DOMAIN row /\ NotNa(row["tags.shop"])
    THEN Label(<<"S", "h", "o", "p">>, row["tags.shop"])
    ELSE IF "tags.office" \in DOMAIN row /\ NotNa(row["tags.office"])
    THEN Label(<<"O", "f", "f", "i", "c", "e">>, row["tags.office"])
    ELSE IF "tags.tourism" \in DOMAIN row /\ NotNa(row["tags.tourism"])
    THEN Label(<<"T", "o", "u", "r", "i", "s", "m">>, row["tags.tourism"])
    ELSE IF "tags.craft" \in DOMAIN row /\ NotNa(row["tags.craft"])
    THEN Label(<<"C", "r", "a", "f", "t">>, row["tags.craft"])
    ELSE IF "tags.leisure" \in DOMAIN row /\ NotNa(row["tags.leisure"])
    THEN Label(<<"L", "e", "i", "s", "u", "r", "e">>, row["tags.leisure"])
    ELSE Other

\* app.py:119-135
categorize_business(row) ==
    IF "tags.shop" \in DOMAIN row /\ NotNa(row["tags.shop"])
    THEN Label(<<"S", "h", "o", "p">>, row["tags.shop"])
    ELSE IF "tags.amenity" \in DOMAIN row /\ NotNa(row["tags.amenity"])
    THEN Label(<<"A", "m", "e", "n", "i", "t", "y">>, row["tags.amenity"])
    ELSE IF "tags.office" \in DOMAIN row /\ NotNa(row["tags.office"])
    THEN Label(<<"O", "f", "f", "i", "c", "e">>, row["tags.office"])
    ELSE IF "tags.tourism" \in DOMAIN row /\ NotNa(row["tags.tourism"])
    THEN Label(<<"T", "o", "u", "r", "i", "s", "m">>, row["tags.tourism"])
    ELSE IF "tags.craft" \in DOMAIN row /\ NotNa(row["tags.craft"])
    THEN Label(<<"C", "r", "a", "f", "t">>, row["tags.craft"])
    ELSE IF "tags.leisure" \in DOMAIN row /\ NotNa(row["tags.leisure"])
    THEN Label(<<"L", "e", "i", "s", "u", "r", "e">>, row["tags.leisure"])
    ELSE Other

\* Series.get(key): None, which pd.notna rejects, when the column is missing
RowGet(row, key) == IF key \in DOMAIN row THEN row[key] ELSE NaN

\* script.py:87-96
script_categorize_business(row) ==
    IF NotNa(RowGet(row, "tags.shop"))
    THEN Label(<<"S", "h", "o", "p">>, row["tags.shop"])
    ELSE IF NotNa(RowGet(row, "tags.amenity"))
    THEN Label(<<"A", "m", "e", "n", "i", "t", "y">>, row["tags.amenity"])
    ELSE IF NotNa(RowGet(row, "tags.office"))
    THEN Label(<<"O", "f", "f", "i", "c", "e">>, row["tags.office"])
    ELSE IF NotNa(RowGet(row, "tags.tourism"))
    THEN Label(<<"T", "o", "u", "r", "i", "s", "m">>, row["tags.tourism"])
    ELSE IF NotNa(RowGet(row, "tags.craft"))
    THEN Label(<<"C", "r", "a", "f", "t">>, row["tags.craft"])
    ELSE IF NotNa(RowGet(row, "tags.leisure"))
    THEN Label(<<"L", "e", "i", "s", "u", "r", "e">>, row["tags.leisure"])
    ELSE Other

DataFrame(columns, index, rows, category) ==
    [columns |-> columns, index |-> index, rows |-> rows, business_category |-> category]

\* pd.DataFrame()
EmptyDataFrame == DataFrame({}, <<>>, <<>>, <<>>)

\* data.get('elements', [])
ElementsOf(data) == IF "elements" \in data.keys THEN data.elements ELSE <<>>

\* app.py:109-138; exc is AttributeError when the body is no JSON object
process_data(data) ==
    IF data.kind # "object"
    THEN [exc |-> "AttributeError", val |-> <<>>]
    ELSE IF ElementsOf(data) = <<>>
    THEN [exc |-> "None", val |-> <<EmptyDataFrame>>]
    ELSE LET norm == JsonNormalize(ElementsOf(data))
         IN  [exc |-> "None",
              val |-> <<DataFrame(norm.columns \cup {"business_category"}, norm.index,
                          norm.rows,
                          [i \in 1..Len(norm.rows) |-> categorize_business(norm.rows[i])])>>]

\* script.py:78-98: the labels of the script's business_category column
script_process(data) ==
    IF data.kind # "object"
    THEN [exc |-> "AttributeError", val |-> <<>>]
    ELSE IF ElementsOf(data) = <<>>
    THEN [exc |-> "None", val |-> <<>>]
    ELSE LET norm == JsonNormalize(ElementsOf(data))
         IN  [exc |-> "None",
              val |-> [i \in 1..Len(norm.rows) |-> script_categorize_business(norm.rows[i])]]

\* DataFrame.empty
IsEmpty(frame) == frame.rows = <<>> \/ frame.columns = {}

(***************************************************************************)
(* df.sort_values(by=sort_cols, ascending=True) (app.py:176-183)           *)
(***************************************************************************)
\* lines 177-181
SortCols(frame) ==
    (IF "business_category" \in frame.columns THEN <<"business_category">> ELSE <<>>)
    \o (IF "tags.name" \in frame.columns THEN <<"tags.name">> ELSE <<>>)

\* the cell of row i in a sort column
Cell(frame, i, col) ==
    IF col = "business_category" THEN frame.business_category[i] ELSE frame.rows[i][col]

\* ascending order of two cells, NaN last (na_position='last')
CellLess(a, b) == a # NaN /\ (b = NaN \/ StrLess(a, b))

RECURSIVE RowLess(_, _, _, _)
\* row i sorts before row j on the columns cols, the first column first
RowLess(frame, i, j, cols) ==
    IF cols = <<>> THEN FALSE
    ELSE LET a == Cell(frame, i, Head(cols))
             b == Cell(frame, j, Head(cols))
         IN  IF a = b THEN RowLess(frame, i, j, Tail(cols)) ELSE CellLess(a, b)

\* rows that compare equal keep their order (lexsort on two columns; on one
\* column numpy sorts fewer than 17 items by insertion)
SortsBefore(frame, i, j, cols) ==
    RowLess(frame, i, j, cols) \/ (~RowLess(frame, j, i, cols) /\ i < j)

\* the positions of the frame's rows in sorted order
SortOrder(frame, cols) ==
    LET n == Len(frame.rows)
        Rank(i) == Cardinality({j \in 1..n : j # i /\ SortsBefore(frame, j, i, cols)})
    IN  [p \in 1..n |-> CHOOSE i \in 1..n : Rank(i) = p - 1]

\* the rows keep their index labels
sort_values(frame, cols) ==
    LET order == SortOrder(frame, cols)
    IN  DataFrame(frame.columns,
                  [p \in 1..Len(order) |-> frame.index[order[p]]],
                  [p \in 1..Len(order) |-> frame.rows[order[p]]],
                  [p \in 1..Len(order) |-> frame.business_category[order[p]]])

\* lines 176-183: the frame df is bound to after the sort
SortedForDisplay(frame) ==
    IF SortCols(frame) # <<>> THEN sort_values(frame, SortCols(frame)) ELSE frame

(***************************************************************************)
(* JSON bodies the spatial service may answer with                         *)
(***************************************************************************)
SampleValue(key) ==
    CASE key = "shop" -> <<"t", "e", "a">>      [] key = "amenity" -> <<"b", "a", "r">>
      [] key = "office" -> <<"n", "g", "o">>    [] key = "tourism" -> <<"z", "o", "o">>
      [] key = "craft" -> <<"k", "e", "y">>     [] key = "leisure" -> <<"s", "p", "a">>

NodeType == <<"n", "o", "d", "e">>

Element(keys) == [type |-> NodeType, tags |-> [k \in keys |-> SampleValue(k)]]

NamedElement(keys, name) ==
    [type |-> NodeType,
     tags |-> [k \in keys \cup {"name"} |-> IF k = "name" THEN name ELSE SampleValue(k)]]

Names == {<<"Z", "o">>, <<"a", "b">>}

Elements ==
    {Element(keys) : keys \in SUBSET Axes}
    \cup {NamedElement({"shop", "amenity"}, n) : n \in Names}

ElementLists(n) == UNION {[1..k -> Elements] : k \in 0..n}

OsmBody(elements) == ObjectBody({"elements"}, elements)

OverpassResponses ==
    {TransportFailure}
    \cup {HttpResponse(s, InvalidBody) : s \in Statuses}
    \cup {HttpResponse(200, b) :
            b \in {ArrayBody(<<>>), ObjectBody({"remark"}, <<>>), OsmBody(<<>>),
                   OsmBody(<<Element({"shop", "amenity"})>>),
                   OsmBody(<<Element({"office"}), Element({})>>),
                   OsmBody(<<NamedElement({"shop"}, <<"a", "b">>),
                             NamedElement({"amenity"}, <<"Z", "o">>),
                             Element({"amenity"})>>),
                   OsmBody(<<NamedElement({"shop"}, <<"a", "b">>), Element({"shop"}),
                             NamedElement({"shop"}, <<"Z", "o">>)>>)}}

(***************************************************************************)
(* The "Get Data" handler (app.py:157-221)                                 *)
(***************************************************************************)
\* mutant of ExceptClause: a ValueError taken for "nothing found"
ExceptClauseSwallowsValueError(cls) ==
    IF IsInstance(cls, "ValueError") THEN "No Data"
    ELSE IF IsInstance(cls, "ConnectionError") THEN "Server Overloaded"
    ELSE IF IsInstance(cls, "RequestException") THEN "Network Error"
    ELSE "Unexpected Error"

\* lines 214-221: the first except clause the exception is an instance of
ExceptClause(cls) ==
    IF IsInstance(cls, "ValueError") THEN "Input Error"
    ELSE IF IsInstance(cls, "ConnectionError") THEN "Server Overloaded"
    ELSE IF IsInstance(cls, "RequestException") THEN "Network Error"
    ELSE "Unexpected Error"

\* lines 170-173: st.warning or st.success
PresentOutcome(frame) == IF IsEmpty(frame) THEN "No Data" ELSE "Found"

ErrorOutcomes == {"Input Error", "Server Overloaded", "Network Error", "Unexpected Error"}

NoRun == [cause |-> "none", outcome |-> "none"]

\* what a reply means for the run: the failure it is, or "none"
FailureCause(service, resp) ==
    IF service = "nominatim"
    THEN IF ~resp.transport_ok THEN "geocoder_transport"
         ELSE IF resp.status >= 400 THEN "geocoder_http_error"
         ELSE IF resp.body.kind = "invalid" THEN "geocoder_bad_body"
         ELSE IF resp.body.kind = "array" /\ resp.body.items = <<>> THEN "no_result"
         ELSE IF GeocodeResult(resp).exc # "None" THEN "geocoder_bad_shape"
         ELSE "none"
    ELSE IF ~resp.transport_ok THEN "transport"
         ELSE IF resp.status >= 500 THEN "http_5xx"
         ELSE IF resp.status >= 400 THEN "http_4xx"
         ELSE IF resp.body.kind = "invalid" THEN "bad_body"
         ELSE IF resp.body.kind # "object" THEN "bad_shape"
         ELSE "none"

\* the script's variables before the handler runs
FreshRun ==
    /\ geo_response = <<>>
    /\ osm_response = <<>>
    /\ exc = "None"
    /\ outcome = "none"
    /\ nominatim_calls = 0
    /\ overpass_calls = 0
    /\ log = <<>>
    /\ ok = {}
    /\ cause = "none"
    /\ script_result = <<>>

Fresh ==
    /\ location = <<>>
    /\ overpass_query = <<>>
    /\ json_data = <<>>
    /\ df = <<>>
    /\ FreshRun

inputs == <<location_query, radius_input, prev, script_result>>

\* raise: the exception leaves the function
Raise(cls, why) ==
    /\ exc' = cls
    /\ cause' = why
    /\ pc' = "except"

\* line 157: the button is pressed
ClickGetData ==
    /\ pc = "idle"
    /\ pc' = "geocode_location"
    /\ UNCHANGED <<inputs, location, overpass_query, json_data, df, geo_response,
                   osm_response, exc, outcome, nominatim_calls, overpass_calls,
                   log, ok, cause>>

\* lines 161, 33-42: the literal coordinates, or the request to Nominatim
GeocodeLocationParse ==
    /\ pc = "geocode_location"
    /\ log' = Append(log, "resolve")
    /\ LET parsed == ParseCoordinates(location_query)
       IN  IF parsed.exc # "None"
           THEN /\ Raise(parsed.exc, "parse")
                /\ UNCHANGED <<location, ok, nominatim_calls>>
           ELSE IF parsed.ok
           THEN /\ location' = parsed.val
                /\ ok' = ok \cup {"resolve"}
                /\ pc' = "get_osm_data"
                /\ UNCHANGED <<nominatim_calls, exc, cause>>
           ELSE /\ nominatim_calls' = nominatim_calls + 1
                /\ pc' = "nominatim"
                /\ UNCHANGED <<location, ok, exc, cause>>
    /\ UNCHANGED <<inputs, overpass_query, json_data, df, geo_response, osm_response,
                   outcome, overpass_calls>>

\* lines 42-49: Nominatim answers, or the transport fails
NominatimRespond(resp) ==
    /\ pc = "nominatim"
    /\ geo_response' = <<resp>>
    /\ LET r == GeocodeResult(resp)
       IN  IF r.exc = "None"
           THEN /\ location' = r.val
                /\ ok' = ok \cup {"resolve"}
                /\ pc' = "get_osm_data"
                /\ UNCHANGED <<exc, cause>>
           ELSE /\ Raise(r.exc, FailureCause("nominatim", resp))
                /\ UNCHANGED <<location, ok>>
    /\ UNCHANGED <<inputs, overpass_query, json_data, df, osm_response, outcome,
                   nominatim_calls, overpass_calls, log>>

\* lines 165, 57-97: the query is built and sent
GetOsmDataRequest ==
    /\ pc = "get_osm_data"
    /\ overpass_query' = <<BuildQuery(location[1], location[2], radius_input)>>
    /\ overpass_calls' = overpass_calls + 1
    /\ log' = log \o <<"build", "fetch">>
    /\ ok' = ok \cup {"build"}
    /\ pc' = "overpass"
    /\ UNCHANGED <<inputs, location, json_data, df, geo_response, osm_response, exc,
                   outcome, nominatim_calls, cause>>

\* mutant of OverpassRespond: the request is sent again after a status >= 500
OverpassRespondRetry(resp) ==
    /\ pc = "overpass"
    /\ osm_response' = <<resp>>
    /\ LET r == FetchResult(resp)
       IN  IF r.exc = "None"
           THEN /\ json_data' = r.val
                /\ ok' = ok \cup {"fetch"}
                /\ pc' = "process_data"
                /\ UNCHANGED <<exc, cause, overpass_calls>>
           ELSE IF r.exc = "ConnectionError"
           THEN /\ overpass_calls' = overpass_calls + 1
                /\ UNCHANGED <<pc, exc, cause, json_data, ok>>
           ELSE /\ Raise(r.exc, FailureCause("overpass", resp))
                /\ UNCHANGED <<json_data, ok, overpass_calls>>
    /\ UNCHANGED <<inputs, location, overpass_query, df, geo_response, outcome,
                   nominatim_calls, log>>

\* lines 96-106: Overpass answers, or the transport fails
OverpassRespond(resp) ==
    /\ pc = "overpass"
    /\ osm_response' = <<resp>>
    /\ LET r == FetchResult(resp)
       IN  IF r.exc = "None"
           THEN /\ json_data' = r.val
                /\ ok' = ok \cup {"fetch"}
                /\ pc' = "process_data"
                /\ UNCHANGED <<exc, cause>>
           ELSE /\ Raise(r.exc, FailureCause("overpass", resp))
                /\ UNCHANGED <<json_data, ok>>
    /\ UNCHANGED <<inputs, location, overpass_query, df, geo_response, outcome,
                   nominatim_calls, overpass_calls, log>>

\* lines 168, 109-138
ProcessData ==
    /\ pc = "process_data"
    /\ log' = Append(log, "normalize")
    /\ LET r == process_data(json_data[1])
       IN  IF r.exc = "None"
           THEN /\ df' = r.val
                /\ ok' = ok \cup {"normalize"}
                /\ pc' = "present"
                /\ UNCHANGED <<exc, cause>>
           ELSE /\ Raise(r.exc, "bad_shape")
                /\ UNCHANGED <<df, ok>>
    /\ UNCHANGED <<inputs, location, overpass_query, json_data, geo_response,
                   osm_response, outcome, nominatim_calls, overpass_calls>>

\* lines 170-212: the warning, or the success message, the sort of line 183
\* that rebinds df, the charts, the preview and the download
Present ==
    /\ pc = "present"
    /\ log' = Append(log, "present")
    /\ outcome' = PresentOutcome(df[1])
    /\ df' = IF IsEmpty(df[1]) THEN df ELSE <<SortedForDisplay(df[1])>>
    /\ ok' = ok \cup {"present"}
    /\ pc' = "done"
    /\ UNCHANGED <<inputs, location, overpass_query, json_data, geo_response,
                   osm_response, exc, nominatim_calls, overpass_calls, cause>>

\* lines 173-204: the success message and the sort, then pd.ExcelWriter raises
\* (engine='openpyxl' where openpyxl is not installed) inside the try block
PresentRaises ==
    /\ pc = "present"
    /\ ~IsEmpty(df[1])
    /\ log' = Append(log, "present")
    /\ outcome' = PresentOutcome(df[1])
    /\ df' = <<SortedForDisplay(df[1])>>
    /\ Raise("ModuleNotFoundError", "presentation")
    /\ UNCHANGED <<inputs, location, overpass_query, json_data, geo_response,
                   osm_response, nominatim_calls, overpass_calls, ok>>

\* lines 214-221: st.error, the last message of the run
HandleException ==
    /\ pc = "except"
    /\ outcome' = ExceptClause(exc)
    /\ pc' = "done"
    /\ UNCHANGED <<inputs, location, overpass_query, json_data, df, geo_response,
                   osm_response, exc, nominatim_calls, overpass_calls, log, ok, cause>>

\* Streamlit runs the script again from the top: its variables start afresh
Rerun ==
    /\ pc = "done"
    /\ pc' = "idle"
    /\ prev' = [cause |-> cause, outcome |-> outcome]
    /\ location' = <<>>
    /\ overpass_query' = <<>>
    /\ json_data' = <<>>
    /\ df' = <<>>
    /\ geo_response' = <<>>
    /\ osm_response' = <<>>
    /\ exc' = "None"
    /\ outcome' = "none"
    /\ nominatim_calls' = 0
    /\ overpass_calls' = 0
    /\ log' = <<>>
    /\ ok' = {}
    /\ cause' = "none"
    /\ UNCHANGED <<location_query, radius_input, script_result>>

\* script.py:76-98 on the body of the response: what the script makes of it
ScriptNormalize ==
    /\ json_data # <<>>
    /\ script_result = <<>>
    /\ script_result' = <<script_process(json_data[1])>>
    /\ UNCHANGED <<pc, location_query, radius_input, prev, location, overpass_query,
                   json_data, df, geo_response, osm_response, exc, outcome,
                   nominatim_calls, overpass_calls, log, ok, cause>>

(***************************************************************************)
(* Specifications                                                          *)
(***************************************************************************)
\* st.number_input(min_value=0.1, max_value=50.0), value=1.0 (app.py:154-155)
WidgetRadii == {Float(1, -1), Float(1, 0), Float(201, -2), Float(50, 0)}

\* texts typed into the location box
Queries ==
    { <<"9", ",", "9">>,
      <<"9", "9", ",", "9">>,
      <<"+", "9", ",", "\t", "9", "e", "1">>,
      <<"n", "a", "n", ",", "-", "i", "n", "f">>,
      <<"e">>,
      <<"e", ",", " ", "e">>,
      <<"9", ",", "9", ",", "9">>,
      <<" ", "9", ",", "", "9">>,
      <<"5", "2", ".", "3", "7", "9", "1", "2", "8", "3", "4", "5", ",", "4", ".", "9", "0", "0", "2", "7", "2">> }

\* A session: the button pressed again and again.
Init ==
    /\ pc = "idle"
    /\ location_query \in Queries
    /\ radius_input \in WidgetRadii
    /\ prev = NoRun
    /\ Fresh

Next ==
    \/ ClickGetData
    \/ GeocodeLocationParse
    \/ \E resp \in NominatimResponses : NominatimRespond(resp)
    \/ GetOsmDataRequest
    \/ \E resp \in OverpassResponses : OverpassRespond(resp)
    \/ ProcessData
    \/ Present
    \/ PresentRaises
    \/ HandleException
    \/ Rerun

Spec == Init /\ [][Next]_vars

\* geocode_location called on its own, with any text.
Alphabet == {"9", ".", "-", ",", " ", "e"}

Strings(n) == UNION {[1..k -> Alphabet] : k \in 0..n}

\* texts beyond the alphabet: whitespace that strip() or float() drops, long
\* literals, literals beyond the range of a double, digits of another script
SampleQueries ==
    {
      \* '9,\x1c9': strip() drops the separator before float() sees it
      <<"9", ",", "", "9">>,
      \* '9,9\x1c9': a separator inside is not dropped
      <<"9", ",", "9", "", "9">>,
      \* '9,\x1c': nothing is left of the second part
      <<"9", ",", "">>,
      \* '\xa09,9\x85': no-break space and next line around
      <<" ", "9", ",", "9", "">>,
      \* '\x0b9,9\u1680': vertical tab and ogham space mark around
      <<"", "9", ",", "9", " ">>,
      \* the point of script.py, two digits more
      <<"5", "2", ".", "3", "7", "9", "1", "2", "8", "3", "4", "5", ",", "4", ".", "9", "0", "0", "2", "7", "2">>,
      <<"3", "0", "0", "0", "0", "0", "0", "0", "0", "1", ",", "9">>,
      \* inf
      <<"2", "e", "3", "0", "8", ",", "9">>,
      \* 0.0
      <<"9", ",", "1", "e", "-", "4", "0", "0">>,
      \* '\u06f9,\u06f9': extended Arabic-Indic nines
      <<"۹", ",", "۹">>,
      <<"N", "e", "w", " ", "Y", "o", "r", "k", ",", " ", "U", "S", "A">> }

InitResolve ==
    /\ pc = "geocode_location"
    /\ location_query \in Strings(MaxQueryLen) \cup SampleQueries
    /\ radius_input = Float(1, 0)
    /\ prev = NoRun
    /\ Fresh

NextResolve ==
    \/ GeocodeLocationParse
    \/ \E resp \in NominatimResponses : NominatimRespond(resp)

SpecResolve == InitResolve /\ [][NextResolve]_vars

\* get_osm_data called on its own, with any arguments.
CallCoordinates == {Float(-90, 0), Float(99, -1), Float(180, 0)}

CallRadii == {Float(-1, 0), Float(0, 0), Float(1, -1), Float(1, 0), Float(201, -2),
              Float(50, 0)}

InitGetOsmData ==
    /\ pc = "get_osm_data"
    /\ location_query = <<>>
    /\ radius_input \in CallRadii
    /\ prev = NoRun
    /\ location \in CallCoordinates \X CallCoordinates
    /\ overpass_query = <<>>
    /\ json_data = <<>>
    /\ df = <<>>
    /\ FreshRun

NextGetOsmData ==
    \/ GetOsmDataRequest
    \/ \E resp \in OverpassResponses : OverpassRespond(resp)

SpecGetOsmData == InitGetOsmData /\ [][NextGetOsmData]_vars

\* process_data, and the script's copy, called on their own with any response body.
InitProcessData ==
    /\ pc = "process_data"
    /\ location_query = <<>>
    /\ radius_input = Float(1, 0)
    /\ prev = NoRun
    /\ location = <<>>
    /\ overpass_query = <<>>
    /\ df = <<>>
    /\ FreshRun
    /\ json_data \in {<<b>> : b \in {OsmBody(es) : es \in ElementLists(MaxElements)}
                                    \cup {ObjectBody({"remark"}, <<>>), ArrayBody(<<>>)}}

NextProcessData == ProcessData \/ ScriptNormalize

SpecProcessData == InitProcessData /\ [][NextProcessData]_vars

(***************************************************************************)
(* Claims                                                                  *)
(***************************************************************************)
AxisOrder == <<"shop", "amenity", "office", "tourism", "craft", "leisure">>

AxisDisplayName(axis) ==
    CASE axis = "shop" -> <<"S", "h", "o", "p">>
      [] axis = "amenity" -> <<"A", "m", "e", "n", "i", "t", "y">>
      [] axis = "office" -> <<"O", "f", "f", "i", "c", "e">>
      [] axis = "tourism" -> <<"T", "o", "u", "r", "i", "s", "m">>
      [] axis = "craft" -> <<"C", "r", "a", "f", "t">>
      [] axis = "leisure" -> <<"L", "e", "i", "s", "u", "r", "e">>

\* the label the taxonomy gives an element: that of the first axis, in AxisOrder,
\* whose tag the element carries
TaxonomyLabel(element) ==
    LET present == {i \in 1..Len(AxisOrder) : AxisOrder[i] \in DOMAIN element.tags}
    IN  IF present = {} THEN <<"O", "t", "h", "e", "r">>
        ELSE LET first == CHOOSE i \in present : \A j \in present : i <= j
             IN  AxisDisplayName(AxisOrder[first]) \o <<":", " ">>
                     \o element.tags[AxisOrder[first]]

Normalized == json_data # <<>> /\ pc \in {"present", "done", "except"}

\* C1: normalisation of a response object never raises, and gives every element
\* exactly one category: "<Axis>: <value>" of the first axis in the order shop,
\* amenity, office, tourism, craft, leisure whose tag the element carries, "Other"
\* when it carries none of the six; in app.py and in script.py alike.
C1_FirstAxisWins ==
    /\ (Normalized /\ json_data[1].kind = "object") =>
          /\ exc = "None"
          /\ df # <<>>
          /\ LET elements == ElementsOf(json_data[1])
                 frame    == df[1]
             IN  /\ Len(frame.business_category) = Len(elements)
                 /\ Len(frame.index) = Len(elements)
                 /\ {frame.index[r] : r \in 1..Len(frame.index)} = 0..(Len(elements) - 1)
                 /\ \A r \in 1..Len(frame.index) :
                      frame.business_category[r] = TaxonomyLabel(elements[frame.index[r] + 1])
    /\ (script_result # <<>> /\ json_data[1].kind = "object") =>
          /\ script_result[1].exc = "None"
          /\ LET elements == ElementsOf(json_data[1])
             IN  script_result[1].val = [i \in 1..Len(elements) |-> TaxonomyLabel(elements[i])]

\* C1 witness: a shop that is also an amenity is labelled as a shop, next to an
\* element without any axis tag, labelled Other, by the app and by the script
C1_Witness ==
    /\ Normalized
    /\ df # <<>>
    /\ Len(df[1].rows) = 2
    /\ DOMAIN ElementsOf(json_data[1])[1].tags = {"shop", "amenity", "leisure"}
    /\ DOMAIN ElementsOf(json_data[1])[2].tags = {}
    /\ df[1].business_category = <<<<"S", "h", "o", "p", ":", " ", "t", "e", "a">>,
                                   <<"O", "t", "h", "e", "r">>>>
    /\ script_result # <<>>
    /\ script_result[1].val = df[1].business_category

Kinds == {"node", "way", "relation"}

\* x > 0 and x <= 0 for a float x: both false for nan
GreaterThanZero(x) == x.kind # "nan" /\ x.sign = 1 /\ (x.kind = "inf" \/ x.m # <<>>)

AtMostZero(x) == x.kind # "nan" /\ ~GreaterThanZero(x)

Range(seq) == {seq[i] : i \in 1..Len(seq)}

\* C8: for a positive radius the query is a union of exactly 18 clauses, one for
\* each geometry kind and axis, all with the filter around:<radius_km * 1000>,
\* <lat>,<lon>.
C8_EighteenClauses ==
    (overpass_query # <<>> /\ GreaterThanZero(radius_input)) =>
        LET q == overpass_query[1]
        IN  /\ Len(q) = 18
            /\ {<<q[i].kind, q[i].axis>> : i \in 1..Len(q)} = Kinds \X Axes
            /\ \A i \in 1..Len(q) :
                 /\ q[i].around.lat = location[1]
                 /\ q[i].around.lon = location[2]
                 /\ q[i].around.radius = [kind |-> "product", of |-> radius_input,
                                          by |-> 1000]
            /\ Len(script_overpass_query) = 18
            /\ {<<c.kind, c.axis>> : c \in Range(script_overpass_query)} = Kinds \X Axes
            /\ \A c \in Range(script_overpass_query) :
                 c.around = [radius |-> 1000, lat |-> LAT, lon |-> LON]

\* C8 witness: the query for a radius of 0.1 km around (9.9, -90)
C8_Witness ==
    /\ overpass_query # <<>>
    /\ radius_input = Float(1, -1)
    /\ location = <<Float(99, -1), Float(-90, 0)>>
    /\ overpass_query[1][18].around.radius.of = Float(1, -1)
    /\ overpass_query[1][18].around.radius.by = 1000

OsmReplied == osm_response # <<>> /\ osm_response[1].transport_ok

\* C2: the fetch step fails with ServiceOverloaded (the built-in ConnectionError)
\* on every status >= 500, with BadRequest (requests' HTTPError) on every 4xx and
\* with a third class, the transport's, when the transport fails.
C2_StatusMapping ==
    osm_response # <<>> =>
        /\ (OsmReplied /\ osm_response[1].status >= 500) => exc = "ConnectionError"
        /\ (OsmReplied /\ osm_response[1].status >= 400 /\ osm_response[1].status < 500)
              => exc = "HTTPError"
        /\ ~osm_response[1].transport_ok
              => (exc \notin {"None", "ConnectionError", "HTTPError"}
                  /\ ~IsInstance(exc, "ConnectionError") /\ ~IsInstance(exc, "HTTPError"))
        /\ ~IsInstance("ConnectionError", "HTTPError")
        /\ ~IsInstance("HTTPError", "ConnectionError")

\* C2 witness: a 503 from the spatial service raised the overload error
C2_Witness ==
    /\ OsmReplied
    /\ osm_response[1].status = 503
    /\ exc = "ConnectionError"
    /\ pc = "except"

\* C3: a radius_km <= 0 is rejected with InvalidRadius before a query is built,
\* and no request is issued for it.
C3_InvalidRadiusRejected ==
    AtMostZero(radius_input) =>
        /\ overpass_query = <<>>
        /\ overpass_calls = 0
        /\ pc # "get_osm_data" => exc = "InvalidRadius"

Commas(str) == {i \in 1..Len(str) : str[i] = ","}

\* the input is exactly two comma-separated parts that both parse as floats,
\* the whitespace around a part set aside (line 36 strips it)
IsLatLon(str) ==
    /\ Cardinality(Commas(str)) = 1
    /\ LET c == CHOOSE i \in Commas(str) : TRUE
       IN  /\ PyFloat(Strip(SubSeq(str, 1, c - 1))).ok
           /\ PyFloat(Strip(SubSeq(str, c + 1, Len(str)))).ok

LatLonOf(str) ==
    LET c == CHOOSE i \in Commas(str) : TRUE
    IN  <<PyFloat(Strip(SubSeq(str, 1, c - 1))).val,
          PyFloat(Strip(SubSeq(str, c + 1, Len(str)))).val>>

Resolving == pc \notin {"idle", "geocode_location"}

\* C4: the resolver issues a geocoding request if and only if the input is not
\* exactly two comma-separated floats; literal coordinates are returned as they
\* are, without a network call; the parse step never raises.
C4_GeocodeIffNotLatLon ==
    Resolving =>
        /\ nominatim_calls = (IF IsLatLon(location_query) THEN 0 ELSE 1)
        /\ IsLatLon(location_query) =>
              (location = LatLonOf(location_query) /\ geo_response = <<>>)
        /\ (geo_response = <<>> /\ osm_response = <<>>) => exc = "None"

\* C4 witness: "e, e" has one comma and no float: it went to the geocoder
C4_Witness ==
    /\ location_query = <<"e", ",", " ", "e">>
    /\ pc = "nominatim"
    /\ nominatim_calls = 1
    /\ exc = "None"

\* C4 witness, the other side: "9, .9" was returned without a network call
C4_WitnessLiteral ==
    /\ location_query = <<"9", ",", " ", ".", "9">>
    /\ pc = "get_osm_data"
    /\ location = <<Float(9, 0), Float(9, -1)>>
    /\ nominatim_calls = 0

\* C4 witness, whitespace beyond ASCII: '\xa09,9\x85' is two floats once line 36
\* has stripped the parts, and was returned without a network call
C4_WitnessStripped ==
    /\ location_query = <<" ", "9", ",", "9", "">>
    /\ pc = "get_osm_data"
    /\ location = <<Float(9, 0), Float(9, 0)>>
    /\ nominatim_calls = 0

NoCandidates ==
    /\ geo_response # <<>>
    /\ geo_response[1].transport_ok
    /\ geo_response[1].status = 200
    /\ geo_response[1].body.kind = "array"
    /\ geo_response[1].body.items = <<>>

\* C5: when the geocoder answers a free-text input with no candidate, resolve
\* fails with LocationNotFound (the ValueError of app.py:47): no Location is
\* returned and the fetch step is not reached.
C5_LocationNotFound ==
    NoCandidates =>
        /\ exc = "ValueError"
        /\ location = <<>>
        /\ overpass_query = <<>>
        /\ overpass_calls = 0
        /\ log = <<"resolve">>
        /\ pc \in {"except", "done"}
        /\ pc = "done" => outcome = "Input Error"

\* C5 witness: the run for "e" ended after the geocoder found nothing
C5_Witness ==
    /\ NoCandidates
    /\ location_query = <<"e">>
    /\ pc = "done"
    /\ outcome = "Input Error"

\* the causes C6 names: the geocoder found nothing, and the four failures of the
\* fetch step (HTTP 4xx, HTTP >= 500, transport failure, unparseable body)
ClaimCauses == {"no_result", "http_4xx", "http_5xx", "transport", "bad_body"}

\* C6: every failure ends in a typed error, and two runs that failed for
\* different causes do not end in the same kind of error.
C6_ErrorKindTellsCause ==
    (pc = "done" /\ cause \in ClaimCauses) =>
        /\ outcome \in ErrorOutcomes \ {"Unexpected Error"}
        /\ (prev.cause \in ClaimCauses /\ prev.cause # cause) => prev.outcome # outcome

ResolveSucceeded ==
    \/ IsLatLon(location_query)
    \/ /\ geo_response # <<>>
       /\ geo_response[1].transport_ok
       /\ geo_response[1].status < 400
       /\ geo_response[1].body.kind = "array"
       /\ geo_response[1].body.items # <<>>
       /\ {"lat", "lon"} \subseteq DOMAIN geo_response[1].body.items[1]

FetchSucceeded ==
    /\ OsmReplied
    /\ osm_response[1].status < 400
    /\ osm_response[1].body.kind # "invalid"

\* an element list that is absent counts as empty: data.get('elements', [])
EmptyElementList ==
    /\ osm_response[1].body.kind = "object"
    /\ ("elements" \notin osm_response[1].body.keys \/ osm_response[1].body.elements = <<>>)

\* C7: a run ends in the "no data" outcome exactly when resolve succeeded and the
\* fetch returned a successful response whose element list is empty; a run in
\* which resolve or fetch failed ends in an error, never in a result.
C7_EmptyIsNotAnError ==
    pc = "done" =>
        /\ outcome = "No Data" <=> (ResolveSucceeded /\ FetchSucceeded /\ EmptyElementList)
        /\ ~(ResolveSucceeded /\ FetchSucceeded) => outcome \in ErrorOutcomes

\* C7 witness: a successful response with an empty element list ended in "no data"
C7_Witness ==
    /\ pc = "done"
    /\ outcome = "No Data"
    /\ osm_response[1].status = 200
    /\ "elements" \in osm_response[1].body.keys
    /\ osm_response[1].body.elements = <<>>
    /\ exc = "None"

\* C7 witness, the other side: a failed fetch ended in an error
C7_WitnessFailedFetch ==
    /\ pc = "done"
    /\ osm_response # <<>>
    /\ ~FetchSucceeded
    /\ outcome \in ErrorOutcomes

PipelineOrder == <<"resolve", "build", "fetch", "normalize", "present">>

IsPrefix(a, b) == Len(a) <= Len(b) /\ a = SubSeq(b, 1, Len(a))

\* C9: in a run the steps start in the order resolve, build query, fetch,
\* normalize, present, each at most once and only after the step before it
\* succeeded; at most one request goes to the spatial service, none after a
\* failed fetch.
C9_SequentialNoRetry ==
    /\ IsPrefix(log, PipelineOrder)
    /\ \A i \in 2..Len(log) : log[i - 1] \in ok
    /\ nominatim_calls <= 1
    /\ overpass_calls <= 1
    /\ (osm_response # <<>> /\ ~FetchSucceeded) =>
          (log = <<"resolve", "build", "fetch">> /\ pc \in {"except", "done"})

\* C9 witness: a run that went through all five steps and showed the sorted frame
C9_Witness ==
    /\ pc = "done"
    /\ log = PipelineOrder
    /\ overpass_calls = 1
    /\ outcome = "Found"
    /\ df[1].index = <<2, 0, 1>>

\* C9 witness, the other side: a run whose fetch failed on a 503 and stopped
C9_WitnessFailedFetch ==
    /\ pc = "done"
    /\ OsmReplied
    /\ osm_response[1].status = 503
    /\ log = <<"resolve", "build", "fetch">>
    /\ overpass_calls = 1

\* -bound <= x <= bound, x a float and bound an int; infinities and NaN are in
\* no range.  Of two doubles above zero the smaller has the smaller (q, m).
WithinDegrees(x, bound) ==
    /\ x.kind = "finite"
    /\ \/ x.m = <<>>
       \/ x.q < Float(bound, 0).q
       \/ x.q = Float(bound, 0).q /\ ~NatLess(Float(bound, 0).m, x.m)

\* C10: every Location the resolver returns has its latitude in [-90, 90] and
\* its longitude in [-180, 180].
C10_LocationInRange ==
    location # <<>> =>
        /\ WithinDegrees(location[1], 90)
        /\ WithinDegrees(location[2], 180)

====
